---------------------------- MODULE Spec2Model ----------------------------
(***************************************************************************)
(* Burpee tracker (src/burpee_tracker.py): the Tracker session object, the *)
(* streaming loop generate_frames that feeds it, and the HTTP handlers     *)
(* that start, pause, resume, reset and read it.                           *)
(*                                                                         *)
(* Time.  time.time() is read as the variable now, counted in clock ticks. *)
(* Every time value the program holds is a difference or sum of clock      *)
(* readings, so integer ticks are exact; TicksPerSec ticks make one        *)
(* second (only int() in get_metrics looks at whole seconds).  The clock   *)
(* starts at Epoch > 0 and never runs backwards.                           *)
(*                                                                         *)
(* Python's None is the empty tuple <<>> and a present value v is <<v>>.   *)
(***************************************************************************)
EXTENDS Integers, Sequences, FiniteSets, TLC

\* ------------------------------------------------------------ bounds ----
Epoch == 1
MaxTime == 5
MaxSigs == 4
MaxConcSigs == 3
TicksPerSec == 2

\* --------------------------------------------------- program constants --
DefaultTarget == 20

Targets == {-1, 0, 1, 2}

VARIABLES
    count,          \* Tracker.count
    target,         \* Tracker.target
    stage,          \* Tracker.stage
    active,         \* Tracker.active
    start_time,     \* Tracker.start_time (None or a clock reading)
    paused_time,    \* Tracker.paused_time
    rep_times,      \* Tracker.rep_times
    now,            \* the value time.time() returns
    stream,         \* the streaming loop: "idle", "running" or "stopped"
    op,             \* the operation that produced this state: its name, input and
                    \* response, and for the POST handlers the tracker they found
    sigs,           \* history: is_visible of every update_state call since start/reset
                    \* (logged where update_state tests self.active)
    started,        \* history: start was called and reset was not called since
    keptActive,     \* history: a session was started and not paused or reset since
    activeTime,     \* history: clock ticks spent active since the last start/reset
    loops,          \* interleaved streaming loops: where each one is in its code
    mreq,           \* interleaved /metrics request: where it is, what it has read
    falls,          \* history: writes that took stage from up to down since start/reset
    raced           \* history: the last start/reset ran while a loop was inside update_state

tracker == <<count, target, stage, active, start_time, paused_time, rep_times>>
history == <<sigs, started, keptActive, activeTime>>
conc == <<loops, mreq, falls, raced>>
vars == <<count, target, stage, active, start_time, paused_time, rep_times,
          now, stream, op, sigs, started, keptActive, activeTime,
          loops, mreq, falls, raced>>

\* ------------------------------------------------------ Python values ---
None == <<>>
Some(v) == <<v>>

\* truth value of an optional number: None and 0 are false
Truthy(v) == v # None /\ v[1] # 0

RECURSIVE sum(_)
sum(s) == IF s = <<>> THEN 0 ELSE s[1] + sum(Tail(s))

\* int(x / d) for an integer x: truncation towards zero
int(x, d) == IF x >= 0 THEN x \div d ELSE -((-x) \div d)

\* Python's a / b as the exact fraction num/den; den = 0 is ZeroDivisionError
Div(a, b) == [num |-> a, den |-> b]

\* a fraction times an integer
Mul(q, k) == [num |-> q.num * k, den |-> q.den]

\* ------------------------------------------------------------ Tracker ---
\* the fields as Tracker.__init__ sets them
NewTracker ==
    [count |-> 0, target |-> 0, stage |-> "down", active |-> FALSE,
     start_time |-> None, paused_time |-> 0, rep_times |-> <<>>]

\* the tracker's fields as one record
self ==
    [count |-> count, target |-> target, stage |-> stage, active |-> active,
     start_time |-> start_time, paused_time |-> paused_time,
     rep_times |-> rep_times]

\* mutant: the active flag is ignored, the clock is never frozen
get_elapsed_time_running ==
    IF ~Truthy(start_time) THEN 0
    ELSE now - start_time[1]

\* mutant: the frozen value is not returned while paused
get_elapsed_time_unfrozen ==
    IF ~Truthy(start_time) THEN 0
    ELSE IF active THEN now - start_time[1]
    ELSE 0

get_elapsed_time ==
    IF ~Truthy(start_time) THEN 0
    ELSE IF active THEN now - start_time[1]
    ELSE paused_time

\* mutant: the elapsed > 0 guard is missing
get_speed_unguarded ==
    LET elapsed == get_elapsed_time
    IN  IF count > 0
        THEN Mul(Div(count, elapsed), 60)
        ELSE Div(0, 1)

get_speed ==
    LET elapsed == get_elapsed_time
    IN  IF elapsed > 0 /\ count > 0
        THEN Mul(Div(count, elapsed), 60)
        ELSE Div(0, 1)

\* mutant: complete does not look at target > 0
get_metrics_anytarget ==
    [count    |-> count,
     target   |-> target,
     time     |-> int(get_elapsed_time, TicksPerSec),
     speed    |-> get_speed,
     stage    |-> stage,
     active   |-> active,
     complete |-> count >= target]

get_metrics ==
    [count    |-> count,
     target   |-> target,
     time     |-> int(get_elapsed_time, TicksPerSec),
     speed    |-> get_speed,
     stage    |-> stage,
     active   |-> active,
     complete |-> target > 0 /\ count >= target]

\* mutant: the pause bookkeeping of the previous session survives
start_keeps_paused(target_reps) ==
    /\ count' = 0
    /\ target' = target_reps
    /\ stage' = "down"
    /\ start_time' = Some(now)
    /\ rep_times' = <<>>
    /\ active' = TRUE
    /\ UNCHANGED paused_time

start(target_reps) ==
    /\ count' = 0
    /\ target' = target_reps
    /\ stage' = "down"
    /\ start_time' = Some(now)
    /\ paused_time' = 0
    /\ rep_times' = <<>>
    /\ active' = TRUE

pause ==
    IF active
    THEN /\ paused_time' = get_elapsed_time
         /\ active' = FALSE
         /\ UNCHANGED <<count, target, stage, start_time, rep_times>>
    ELSE UNCHANGED tracker

\* mutant: a session that was never started can be resumed
resume_nostartcheck ==
    IF ~active
    THEN /\ start_time' = Some(now - paused_time)
         /\ active' = TRUE
         /\ UNCHANGED <<count, target, stage, paused_time, rep_times>>
    ELSE UNCHANGED tracker

\* mutant: start_time is not re-based
resume_norebase ==
    IF ~active /\ Truthy(start_time)
    THEN /\ active' = TRUE
         /\ UNCHANGED <<count, target, stage, start_time, paused_time, rep_times>>
    ELSE UNCHANGED tracker

resume ==
    IF ~active /\ Truthy(start_time)
    THEN /\ start_time' = Some(now - paused_time)
         /\ active' = TRUE
         /\ UNCHANGED <<count, target, stage, paused_time, rep_times>>
    ELSE UNCHANGED tracker

\* mutant: the session clock survives the reset
reset_keeps_clock ==
    /\ count' = NewTracker.count
    /\ target' = NewTracker.target
    /\ stage' = NewTracker.stage
    /\ active' = NewTracker.active
    /\ rep_times' = NewTracker.rep_times
    /\ UNCHANGED <<start_time, paused_time>>

\* reset calls __init__ on the same object
reset ==
    /\ count' = NewTracker.count
    /\ target' = NewTracker.target
    /\ stage' = NewTracker.stage
    /\ active' = NewTracker.active
    /\ start_time' = NewTracker.start_time
    /\ paused_time' = NewTracker.paused_time
    /\ rep_times' = NewTracker.rep_times

\* mutant: the counter is decremented
CountRep_decrement ==
    /\ stage' = "down"
    /\ count' = count - 1
    /\ rep_times' = IF rep_times # <<>>
                    THEN Append(rep_times, now - sum(rep_times) - start_time[1])
                    ELSE Append(rep_times, now - start_time[1])

\* mutant: the stage is not set back to down
CountRep_keeps_stage ==
    /\ UNCHANGED stage
    /\ count' = count + 1
    /\ rep_times' = IF rep_times # <<>>
                    THEN Append(rep_times, now - sum(rep_times) - start_time[1])
                    ELSE Append(rep_times, now - start_time[1])

\* mutant: the rep is counted but no entry is appended
CountRep_noappend ==
    /\ stage' = "down"
    /\ count' = count + 1
    /\ UNCHANGED rep_times

\* mutant: the sum of the earlier entries is not subtracted
CountRep_nosum ==
    /\ stage' = "down"
    /\ count' = count + 1
    /\ rep_times' = Append(rep_times, now - start_time[1])

\* the rep bookkeeping both branches of update_state share
CountRep ==
    /\ stage' = "down"
    /\ count' = count + 1
    /\ rep_times' = IF rep_times # <<>>
                    THEN Append(rep_times, now - sum(rep_times) - start_time[1])
                    ELSE Append(rep_times, now - start_time[1])

\* mutant: a not-visible frame counts whatever the stage
update_state_nostage(body_state) ==
    IF ~active
    THEN UNCHANGED tracker
    ELSE IF body_state = None
    THEN /\ IF stage # "down"
            THEN CountRep
            ELSE UNCHANGED <<stage, count, rep_times>>
         /\ UNCHANGED <<target, active, start_time, paused_time>>
    ELSE /\ IF body_state[1].is_visible
            THEN /\ stage' = IF stage # "up" THEN "up" ELSE stage
                 /\ UNCHANGED <<count, rep_times>>
            ELSE CountRep
         /\ UNCHANGED <<target, active, start_time, paused_time>>

\* mutant: the down -> up change counts a rep too
update_state_countup(body_state) ==
    IF ~active
    THEN UNCHANGED tracker
    ELSE IF body_state = None
    THEN /\ IF stage # "down"
            THEN CountRep
            ELSE UNCHANGED <<stage, count, rep_times>>
         /\ UNCHANGED <<target, active, start_time, paused_time>>
    ELSE /\ IF body_state[1].is_visible
            THEN /\ stage' = IF stage # "up" THEN "up" ELSE stage
                 /\ count' = IF stage # "up" THEN count + 1 ELSE count
                 /\ UNCHANGED rep_times
            ELSE IF stage # "down"
                 THEN CountRep
                 ELSE UNCHANGED <<stage, count, rep_times>>
         /\ UNCHANGED <<target, active, start_time, paused_time>>

\* mutant: the active check is missing
update_state_noactive(body_state) ==
    IF body_state = None
    THEN /\ IF stage # "down"
            THEN CountRep
            ELSE UNCHANGED <<stage, count, rep_times>>
         /\ UNCHANGED <<target, active, start_time, paused_time>>
    ELSE /\ IF body_state[1].is_visible
            THEN /\ stage' = IF stage # "up" THEN "up" ELSE stage
                 /\ UNCHANGED <<count, rep_times>>
            ELSE IF stage # "down"
                 THEN CountRep
                 ELSE UNCHANGED <<stage, count, rep_times>>
         /\ UNCHANGED <<target, active, start_time, paused_time>>

\* mutant: no rep is counted once the target is reached
update_state_capped(body_state) ==
    IF ~active
    THEN UNCHANGED tracker
    ELSE IF body_state = None
    THEN /\ IF stage # "down"
            THEN CountRep
            ELSE UNCHANGED <<stage, count, rep_times>>
         /\ UNCHANGED <<target, active, start_time, paused_time>>
    ELSE /\ IF body_state[1].is_visible
            THEN /\ stage' = IF stage # "up" THEN "up" ELSE stage
                 /\ UNCHANGED <<count, rep_times>>
            ELSE IF stage # "down" /\ ~(target > 0 /\ count >= target)
                 THEN CountRep
                 ELSE UNCHANGED <<stage, count, rep_times>>
         /\ UNCHANGED <<target, active, start_time, paused_time>>

update_state(body_state) ==
    IF ~active
    THEN UNCHANGED tracker
    ELSE IF body_state = None
    THEN /\ IF stage # "down"
            THEN CountRep
            ELSE UNCHANGED <<stage, count, rep_times>>
         /\ UNCHANGED <<target, active, start_time, paused_time>>
    ELSE /\ IF body_state[1].is_visible
            THEN /\ stage' = IF stage # "up" THEN "up" ELSE stage
                 /\ UNCHANGED <<count, rep_times>>
            ELSE IF stage # "down"
                 THEN CountRep
                 ELSE UNCHANGED <<stage, count, rep_times>>
         /\ UNCHANGED <<target, active, start_time, paused_time>>

\* ------------------------------------------------------------- Camera ---
\* The landmarks get_body_state reads and one it does not read.  A landmark
\* is [visibility, y], both in tenths (visibility 5 is 0.5).
KeyLandmarks ==
    {"NOSE", "LEFT_SHOULDER", "RIGHT_SHOULDER", "LEFT_HIP", "RIGHT_HIP"}
PoseLandmark == KeyLandmarks \cup {"LEFT_KNEE"}
Visibilities == {4, 5, 6}
VisibilityThreshold == 5

\* every landmark at the same visibility
Body(v) == [l \in PoseLandmark |-> [visibility |-> v, y |-> 5]]

\* mutant: the comparison is >= instead of >
get_body_state_ge(landmarks) ==
    LET nose == landmarks["NOSE"]
        left_shoulder == landmarks["LEFT_SHOULDER"]
        right_shoulder == landmarks["RIGHT_SHOULDER"]
        left_hip == landmarks["LEFT_HIP"]
        right_hip == landmarks["RIGHT_HIP"]
        nose_visible == nose.visibility >= VisibilityThreshold
        shoulders_visible == /\ left_shoulder.visibility >= VisibilityThreshold
                             /\ right_shoulder.visibility >= VisibilityThreshold
        hips_visible == /\ left_hip.visibility >= VisibilityThreshold
                        /\ right_hip.visibility >= VisibilityThreshold
        is_visible == nose_visible /\ shoulders_visible /\ hips_visible
    IN  [is_visible |-> is_visible, nose_y |-> nose.y]

get_body_state(landmarks) ==
    LET nose == landmarks["NOSE"]
        left_shoulder == landmarks["LEFT_SHOULDER"]
        right_shoulder == landmarks["RIGHT_SHOULDER"]
        left_hip == landmarks["LEFT_HIP"]
        right_hip == landmarks["RIGHT_HIP"]
        nose_visible == nose.visibility > VisibilityThreshold
        shoulders_visible == /\ left_shoulder.visibility > VisibilityThreshold
                             /\ right_shoulder.visibility > VisibilityThreshold
        hips_visible == /\ left_hip.visibility > VisibilityThreshold
                        /\ right_hip.visibility > VisibilityThreshold
        is_visible == nose_visible /\ shoulders_visible /\ hips_visible
    IN  [is_visible |-> is_visible, nose_y |-> nose.y]

\* What the camera and the pose estimator can deliver for one loop turn:
\* no frame, a frame without landmarks, a frame with landmarks (a body in
\* full view, or one with the nose at visibility 0.5).
NoFrame == None
Frames == {[pose_landmarks |-> None]}
            \cup {[pose_landmarks |-> Some(Body(6))],
                  [pose_landmarks |->
                      Some([Body(6) EXCEPT !["NOSE"].visibility = 5])]}

get_user_state(frame) ==
    IF frame.pose_landmarks = None THEN None
    ELSE Some(get_body_state(frame.pose_landmarks[1]))

\* ------------------------------------------- interleaved threads (idle) --
LoopIds == {1, 2}

\* no streaming loop and no /metrics request is running
ConcIdle ==
    /\ loops = [i \in LoopIds |-> [pc |-> "off", vis |-> FALSE]]
    /\ mreq = [pc |-> "idle"]
    /\ falls = 0
    /\ raced = FALSE

\* ------------------------------------------------------------ actions ---
Init ==
    /\ count = NewTracker.count
    /\ target = NewTracker.target
    /\ stage = NewTracker.stage
    /\ active = NewTracker.active
    /\ start_time = NewTracker.start_time
    /\ paused_time = NewTracker.paused_time
    /\ rep_times = NewTracker.rep_times
    /\ now = Epoch
    /\ stream = "idle"
    /\ op = [name |-> "init", arg |-> None, ret |-> None, pre |-> None]
    /\ sigs = <<>>
    /\ started = FALSE
    /\ keptActive = FALSE
    /\ activeTime = 0
    /\ ConcIdle

\* the clock advances between operations
Tick ==
    /\ now < MaxTime
    /\ now' = now + 1
    /\ activeTime' = IF active THEN activeTime + 1 ELSE activeTime
    /\ op' = [name |-> "tick", arg |-> None, ret |-> None, pre |-> None]
    /\ UNCHANGED <<tracker, stream, sigs, started, keptActive>>
    /\ UNCHANGED conc

\* GET /video_feed: a streaming loop starts
video_feed ==
    /\ stream # "running"
    /\ stream' = "running"
    /\ op' = [name |-> "video_feed", arg |-> None, ret |-> None, pre |-> None]
    /\ UNCHANGED <<tracker, now, history>>
    /\ UNCHANGED conc

\* mutant: a missing frame is skipped and the loop goes on
generate_frames_retry ==
    /\ stream = "running"
    /\ \E frame \in {NoFrame} \cup {Some(f) : f \in Frames} :
        /\ op' = [name |-> "generate_frames", arg |-> frame, pre |-> None,
                  ret |-> IF frame = None THEN None ELSE Some("chunk")]
        /\ IF frame = None
           THEN /\ stream' = stream
                /\ UNCHANGED <<tracker, sigs>>
           ELSE LET user_state == get_user_state(frame[1])
                IN  /\ stream' = stream
                    /\ IF user_state # None
                       THEN /\ Len(sigs) < MaxSigs
                            /\ update_state(user_state)
                            /\ sigs' = Append(sigs, user_state[1].is_visible)
                       ELSE UNCHANGED <<tracker, sigs>>
    /\ UNCHANGED <<now, started, keptActive, activeTime>>
    /\ UNCHANGED conc

\* one turn of the while loop of generate_frames
generate_frames ==
    /\ stream = "running"
    /\ \E frame \in {NoFrame} \cup {Some(f) : f \in Frames} :
        /\ op' = [name |-> "generate_frames", arg |-> frame, pre |-> None,
                  ret |-> IF frame = None THEN None ELSE Some("chunk")]
        /\ IF frame = None
           THEN /\ stream' = "stopped"
                /\ UNCHANGED <<tracker, sigs>>
           ELSE LET user_state == get_user_state(frame[1])
                IN  /\ stream' = stream
                    /\ IF user_state # None
                       THEN /\ Len(sigs) < MaxSigs
                            /\ update_state(user_state)
                            /\ sigs' = Append(sigs, user_state[1].is_visible)
                       ELSE UNCHANGED <<tracker, sigs>>
    /\ UNCHANGED <<now, started, keptActive, activeTime>>
    /\ UNCHANGED conc

\* GET /metrics
get_metrics_route ==
    /\ op' = [name |-> "get_metrics", arg |-> None, ret |-> Some(get_metrics),
              pre |-> None]
    /\ UNCHANGED <<tracker, now, stream, history>>
    /\ UNCHANGED conc

\* POST /start: the request body carries a target or none
start_workout ==
    \E data \in {None} \cup {Some(t) : t \in Targets} :
        LET tgt == IF data = None THEN DefaultTarget ELSE data[1]
        IN  /\ start(tgt)
            /\ op' = [name |-> "start", arg |-> Some(tgt),
                      ret |-> Some([status |-> "started"]), pre |-> Some(self)]
            /\ sigs' = <<>>
            /\ started' = TRUE
            /\ keptActive' = TRUE
            /\ activeTime' = 0
            /\ UNCHANGED <<now, stream>>
            /\ UNCHANGED conc

\* POST /pause
pause_workout ==
    /\ pause
    /\ op' = [name |-> "pause", arg |-> None,
              ret |-> Some([status |-> "paused"]), pre |-> Some(self)]
    /\ keptActive' = FALSE
    /\ UNCHANGED <<now, stream, sigs, started, activeTime>>
    /\ UNCHANGED conc

\* POST /resume
resume_workout ==
    /\ resume
    /\ op' = [name |-> "resume", arg |-> None,
              ret |-> Some([status |-> "resumed"]), pre |-> Some(self)]
    /\ UNCHANGED <<now, stream, history>>
    /\ UNCHANGED conc

\* POST /reset
reset_workout ==
    /\ reset
    /\ op' = [name |-> "reset", arg |-> None,
              ret |-> Some([status |-> "reset"]), pre |-> Some(self)]
    /\ sigs' = <<>>
    /\ started' = FALSE
    /\ keptActive' = FALSE
    /\ activeTime' = 0
    /\ UNCHANGED <<now, stream>>
    /\ UNCHANGED conc

Next ==
    \/ Tick
    \/ video_feed
    \/ generate_frames
    \/ get_metrics_route
    \/ start_workout
    \/ pause_workout
    \/ resume_workout
    \/ reset_workout

Spec == Init /\ [][Next]_vars

\* ---------------------------------------------- get_body_state alone ---
\* The pose estimator hands any landmark set to get_body_state.
InitBody ==
    /\ count = NewTracker.count
    /\ target = NewTracker.target
    /\ stage = NewTracker.stage
    /\ active = NewTracker.active
    /\ start_time = NewTracker.start_time
    /\ paused_time = NewTracker.paused_time
    /\ rep_times = NewTracker.rep_times
    /\ now = Epoch
    /\ stream = "idle"
    /\ \E vis \in [PoseLandmark -> Visibilities] :
          op = [name |-> "landmarks", ret |-> None, pre |-> None,
                arg |-> Some([l \in PoseLandmark |->
                                [visibility |-> vis[l], y |-> 5]])]
    /\ sigs = <<>>
    /\ started = FALSE
    /\ keptActive = FALSE
    /\ activeTime = 0
    /\ ConcIdle

body_state ==
    /\ op.name = "landmarks"
    /\ op' = [name |-> "get_body_state", arg |-> op.arg,
              ret |-> Some(get_body_state(op.arg[1])), pre |-> None]
    /\ UNCHANGED <<tracker, now, stream, history>>
    /\ UNCHANGED conc

NextBody == body_state

SpecBody == InitBody /\ [][NextBody]_vars

TypeOK ==
    /\ count \in Nat
    /\ stage \in {"up", "down"}
    /\ active \in BOOLEAN
    /\ now \in Epoch..MaxTime
    /\ stream \in {"idle", "running", "stopped"}

\* ------------------------------------------- interleaved threads (run) ---
\* The server runs threaded and nothing locks the tracker: a thread can be
\* switched out between any two reads or writes of tracker fields.  Here
\* a streaming loop goes through update_state in four steps (the tests,
\* the write of stage, the write of count, the append) and a /metrics
\* request builds its dictionary one entry at a time, while start, pause,
\* resume and reset run in one piece: the runs walked here are runs of the
\* program, not all of them.  The threads interleave faster than the clock
\* ticks: now stands still here.  Every loop stops asking for frames once
\* MaxConcSigs calls of update_state are logged.  (update_state's
\* branch for body_state None is not walked: generate_frames never passes
\* None.)
\* loop i is inside update_state, past the test of self.active
PastCheck(i) == loops[i].pc \in {"set_up", "set_down", "count", "append"}

\* loop i moves on to pc with these locals
Goto(i, pc, vis) ==
    loops' = [loops EXCEPT ![i] = [pc |-> pc, vis |-> vis]]

\* a start or reset tells on a /metrics request in flight
Disturbed(m) ==
    IF m.pc \in {"idle", "done"} THEN m ELSE [m EXCEPT !.clean = FALSE]

\* GET /video_feed: one more streaming loop
c_video_feed ==
    \E i \in LoopIds :
        /\ loops[i].pc \in {"off", "stopped", "crashed"}
        /\ Goto(i, "frame", FALSE)
        /\ UNCHANGED <<tracker, now, stream, op, history, mreq, falls, raced>>

\* GET /video_feed when the page is open once: the one streaming loop
c_video_feed_one ==
    /\ loops[1].pc \in {"off", "stopped", "crashed"}
    /\ Goto(1, "frame", FALSE)
    /\ UNCHANGED <<tracker, now, stream, op, history, mreq, falls, raced>>

\* top of the while loop: get_frame, get_user_state, the call of update_state
c_get_frame ==
    \E i \in LoopIds :
        /\ loops[i].pc = "frame"
        /\ \E frame \in {NoFrame} \cup {Some(f) : f \in Frames} :
            IF frame = None
            THEN Goto(i, "stopped", FALSE)
            ELSE LET user_state == get_user_state(frame[1])
                 IN  IF user_state # None
                     THEN /\ Len(sigs) < MaxConcSigs
                          /\ Goto(i, "check", user_state[1].is_visible)
                     ELSE UNCHANGED loops
        /\ UNCHANGED <<tracker, now, stream, op, history, mreq, falls, raced>>

\* if not self.active: return; then the test of is_visible and self.stage
c_check ==
    \E i \in LoopIds :
        /\ loops[i].pc = "check"
        /\ IF ~active
           THEN Goto(i, "frame", FALSE)
           ELSE IF loops[i].vis
           THEN IF stage # "up"
                THEN Goto(i, "set_up", FALSE)
                ELSE Goto(i, "frame", FALSE)
           ELSE IF stage # "down"
                THEN Goto(i, "set_down", FALSE)
                ELSE Goto(i, "frame", FALSE)
        /\ sigs' = Append(sigs, loops[i].vis)
        /\ UNCHANGED <<tracker, now, stream, op, started, keptActive,
                       activeTime, mreq, falls, raced>>

\* self.stage = 'up'
c_set_up ==
    \E i \in LoopIds :
        /\ loops[i].pc = "set_up"
        /\ stage' = "up"
        /\ Goto(i, "frame", FALSE)
        /\ UNCHANGED <<count, target, active, start_time, paused_time,
                       rep_times, now, stream, op, history, mreq, falls, raced>>

\* self.stage = 'down'
c_set_down ==
    \E i \in LoopIds :
        /\ loops[i].pc = "set_down"
        /\ stage' = "down"
        /\ falls' = IF stage = "up" THEN falls + 1 ELSE falls
        /\ Goto(i, "count", FALSE)
        /\ UNCHANGED <<count, target, active, start_time, paused_time,
                       rep_times, now, stream, op, history, mreq, raced>>

\* self.count += 1
c_count ==
    \E i \in LoopIds :
        /\ loops[i].pc = "count"
        /\ count' = count + 1
        /\ Goto(i, "append", FALSE)
        /\ UNCHANGED <<target, stage, active, start_time, paused_time,
                       rep_times, now, stream, op, history, mreq, falls, raced>>

\* self.rep_times.append(...); time.time() - None raises TypeError and
\* ends the generator
c_append ==
    \E i \in LoopIds :
        /\ loops[i].pc = "append"
        /\ IF start_time = None
           THEN Goto(i, "crashed", FALSE) /\ UNCHANGED rep_times
           ELSE /\ rep_times' =
                     IF rep_times # <<>>
                     THEN Append(rep_times,
                                 now - sum(rep_times) - start_time[1])
                     ELSE Append(rep_times, now - start_time[1])
                /\ Goto(i, "frame", FALSE)
        /\ UNCHANGED <<count, target, stage, active, start_time, paused_time,
                       now, stream, op, history, mreq, falls, raced>>

\* GET /metrics arrives
m_request ==
    /\ mreq.pc \in {"idle", "done"}
    /\ mreq' = [pc |-> "count", clean |-> TRUE]
    /\ UNCHANGED <<tracker, now, stream, op, history, loops, falls, raced>>

\* 'count': self.count, 'target': self.target
m_count ==
    /\ mreq.pc = "count"
    /\ mreq' = [pc |-> "time", clean |-> mreq.clean,
                count |-> count, target |-> target]
    /\ UNCHANGED <<tracker, now, stream, op, history, loops, falls, raced>>

\* 'time': int(self.get_elapsed_time())
m_time ==
    /\ mreq.pc = "time"
    /\ mreq' = [pc |-> "speed", clean |-> mreq.clean,
                count |-> mreq.count, target |-> mreq.target,
                time |-> int(get_elapsed_time, TicksPerSec)]
    /\ UNCHANGED <<tracker, now, stream, op, history, loops, falls, raced>>

\* 'speed': self.get_speed()
m_speed ==
    /\ mreq.pc = "speed"
    /\ mreq' = [pc |-> "stage", clean |-> mreq.clean,
                count |-> mreq.count, target |-> mreq.target,
                time |-> mreq.time, speed |-> get_speed]
    /\ UNCHANGED <<tracker, now, stream, op, history, loops, falls, raced>>

\* 'stage': self.stage, 'active': self.active
m_stage ==
    /\ mreq.pc = "stage"
    /\ mreq' = [pc |-> "complete", clean |-> mreq.clean,
                count |-> mreq.count, target |-> mreq.target,
                time |-> mreq.time, speed |-> mreq.speed,
                stage |-> stage, active |-> active]
    /\ UNCHANGED <<tracker, now, stream, op, history, loops, falls, raced>>

\* 'complete': self.target > 0 and self.count >= self.target; the response
m_complete ==
    /\ mreq.pc = "complete"
    /\ mreq' = [pc |-> "done", clean |-> mreq.clean,
                count |-> mreq.count, target |-> mreq.target,
                time |-> mreq.time, speed |-> mreq.speed,
                stage |-> mreq.stage, active |-> mreq.active,
                complete |-> target > 0 /\ count >= target]
    /\ UNCHANGED <<tracker, now, stream, op, history, loops, falls, raced>>

c_start ==
    \E data \in {None} \cup {Some(t) : t \in Targets} :
        /\ start(IF data = None THEN DefaultTarget ELSE data[1])
        /\ sigs' = <<>>
        /\ started' = TRUE
        /\ keptActive' = TRUE
        /\ activeTime' = 0
        /\ falls' = 0
        /\ raced' = (\E i \in LoopIds : PastCheck(i))
        /\ mreq' = Disturbed(mreq)
        /\ UNCHANGED <<now, stream, op, loops>>

c_pause ==
    /\ pause
    /\ keptActive' = FALSE
    /\ UNCHANGED <<now, stream, op, sigs, started, activeTime, conc>>

c_resume ==
    /\ resume
    /\ UNCHANGED <<now, stream, op, history, conc>>

c_reset ==
    /\ reset
    /\ sigs' = <<>>
    /\ started' = FALSE
    /\ keptActive' = FALSE
    /\ activeTime' = 0
    /\ falls' = 0
    /\ raced' = (\E i \in LoopIds : PastCheck(i))
    /\ mreq' = Disturbed(mreq)
    /\ UNCHANGED <<now, stream, op, loops>>

\* several streaming loops against the one tracker, with the POST handlers
NextConc ==
    \/ c_video_feed
    \/ c_get_frame
    \/ c_check
    \/ c_set_up
    \/ c_set_down
    \/ c_count
    \/ c_append
    \/ c_start
    \/ c_pause
    \/ c_resume
    \/ c_reset

SpecConc == Init /\ [][NextConc]_vars

\* one streaming loop and the polled /metrics requests
NextMetrics ==
    \/ c_video_feed_one
    \/ c_get_frame
    \/ c_check
    \/ c_set_up
    \/ c_set_down
    \/ c_count
    \/ c_append
    \/ m_request
    \/ m_count
    \/ m_time
    \/ m_speed
    \/ m_stage
    \/ m_complete
    \/ c_start
    \/ c_reset

SpecMetrics == Init /\ [][NextMetrics]_vars

\* ============================================================ claims ====
\* the number of positions of s where FALSE follows TRUE
Falls(s) == Cardinality({i \in 2..Len(s) : ~s[i] /\ s[i - 1]})

\* the last operation was one turn of the streaming loop on this kind of frame
FrameStep(o, landmarks) ==
    /\ o.name = "generate_frames"
    /\ o.arg # None
    /\ (o.arg[1].pose_landmarks # None) = landmarks

\* the frame of a streaming-loop turn carried a body state with this is_visible
Visible(o) == get_user_state(o.arg[1])[1].is_visible

\* C1: in a session started and kept active since, the count equals the
\* number of up->down changes in the visibility signals update_state has
\* processed (not-visible right after visible); [T, F, T, F] gives 2.
C1_CountIsFallingEdges ==
    keptActive => active /\ count = Falls(sigs)

C1_Witness ==
    keptActive /\ sigs = <<TRUE, FALSE, TRUE, FALSE>> /\ count = 2

\* C2 as stated: every operation that begins and ends with the session
\* active leaves the count at least what it was.
C2_Original ==
    [][(active /\ active') => count' >= count]_vars

\* C2 amended: every operation other than start that begins and ends with
\* the session active leaves the count at least what it was; start sets
\* the count to 0.
C2_MonotoneExceptStart ==
    [][/\ (active /\ active' /\ op'.name # "start") => count' >= count
       /\ op'.name = "start" => count' = 0]_vars

C2_Witness ==
    /\ active /\ count = 2
    /\ FrameStep(op, TRUE) /\ ~Visible(op)
    /\ sigs = <<TRUE, FALSE, TRUE, FALSE>>

\* C3: when the session is active with stage up and the streaming loop
\* processes a frame without landmarks, the stage becomes down and the
\* count grows by one.
C3_LossOfDetectionCounts ==
    [][(active /\ stage = "up" /\ FrameStep(op', FALSE))
          => (stage' = "down" /\ count' = count + 1)]_vars

\* C4: pause on an active session leaves count, stage and target alone and
\* freezes the elapsed time: until the next resume, start or reset
\* get_elapsed_time keeps returning the elapsed time at the pause.
C4_PauseFreezes ==
    [][/\ (op'.name = "pause" /\ active)
            => /\ count' = count /\ stage' = stage /\ target' = target
               /\ ~active'
               /\ get_elapsed_time' = get_elapsed_time
       /\ (started /\ ~active /\ op'.name \notin {"resume", "start", "reset"})
            => get_elapsed_time' = get_elapsed_time]_vars

C4_Witness ==
    /\ op.name = "tick" /\ started /\ ~active
    /\ paused_time = 1 /\ get_elapsed_time = 1
    /\ now - start_time[1] = 3

\* C5: a resume of a paused session sets start_time to now minus the frozen
\* value, so the elapsed time right after the resume is the elapsed time at
\* the pause; in a started session the elapsed time is the clock time spent
\* active since the start, and no operation but start and reset lowers it.
C5_ResumePreservesElapsed ==
    /\ [](started => get_elapsed_time = activeTime)
    /\ [][/\ (op'.name = "resume" /\ started /\ ~active)
                => /\ active'
                   /\ start_time' = Some(now' - paused_time)
                   /\ get_elapsed_time' = get_elapsed_time
          /\ op'.name \notin {"start", "reset"}
                => get_elapsed_time' >= get_elapsed_time]_vars

\* a resume two ticks after the pause: start_time moved by two
C5_Witness ==
    /\ op.name = "resume" /\ active /\ ~op.pre[1].active
    /\ paused_time = 2 /\ get_elapsed_time = 2
    /\ start_time[1] = op.pre[1].start_time[1] + 2
    /\ count = 1

\* C6: get_elapsed_time is now - start_time while the session is active, the
\* frozen paused_time while it is started and not active, and 0 while no
\* session is started (initially and after reset).
C6_ElapsedTime ==
    /\ active => started /\ get_elapsed_time = now - start_time[1]
    /\ (started /\ ~active) => get_elapsed_time = paused_time
    /\ ~started => ~active /\ get_elapsed_time = 0
    /\ op.name \in {"init", "reset"} => ~started

C6_Witness ==
    /\ started /\ ~active /\ op.name = "get_metrics"
    /\ get_elapsed_time = 2 /\ now - start_time[1] = 4

\* C7: get_speed is count * 60 / elapsed when elapsed > 0 and 0 when
\* elapsed is 0 or count is 0; it never divides by zero and is never
\* negative.
C7_Speed ==
    LET e == get_elapsed_time
        q == get_speed
    IN  /\ q.den # 0
        /\ e > 0 => q.num * e = count * 60 * q.den
        /\ (e = 0 \/ count = 0) => q.num = 0
        /\ q.num * q.den >= 0

C7_Witness ==
    /\ count = 2 /\ get_elapsed_time = 3
    /\ get_speed = [num |-> 120, den |-> 3]

\* C8: get_metrics has exactly the fields count, target, time, speed,
\* stage, active, complete; count, target, stage, active are the session's,
\* time is the elapsed time in whole seconds, rounded down, and complete is
\* target > 0 and count >= target: false right after a start with a
\* positive target, false after reset, false whenever target <= 0.
C8_Metrics ==
    LET m == get_metrics
        e == get_elapsed_time
    IN  /\ DOMAIN m = {"count", "target", "time", "speed", "stage", "active",
                       "complete"}
        /\ m.count = count /\ m.target = target
        /\ m.stage = stage /\ m.active = active
        /\ m.speed = get_speed
        /\ e >= 0
        /\ m.time * TicksPerSec <= e /\ e < (m.time + 1) * TicksPerSec
        /\ m.complete <=> (target > 0 /\ count >= target)
        /\ (op.name = "start" /\ op.arg[1] > 0) => ~m.complete
        /\ op.name = "reset" => ~m.complete
        /\ target <= 0 => ~m.complete
        /\ op.name = "get_metrics" => op.ret = Some(m)

C8_Witness ==
    /\ op.name = "get_metrics"
    /\ op.ret[1].complete /\ op.ret[1].count = 2 /\ op.ret[1].target = 1
    /\ op.ret[1].time = 1 /\ get_elapsed_time = TicksPerSec + 1

\* C9: start(target) from any state gives a fresh active session: count 0,
\* the given target, stage down, active, start_time = now, paused_time 0,
\* rep_times empty.
C9_StartIsFresh ==
    op.name = "start" =>
        self = [count |-> 0, target |-> op.arg[1], stage |-> "down",
                active |-> TRUE, start_time |-> Some(now),
                paused_time |-> 0, rep_times |-> <<>>]

C9_Witness ==
    /\ op.name = "start"
    /\ op.pre[1].count = 1 /\ op.pre[1].target = 1
    /\ op.pre[1].paused_time = 1 /\ op.pre[1].stage = "up"
    /\ op.pre[1].rep_times = <<1>>
    /\ ~op.pre[1].active
    /\ target = DefaultTarget

\* C10: reset from any state leaves the tracker as a newly constructed one
\* (count 0, target 0, stage down, not active, start_time unset,
\* paused_time 0, rep_times empty); a second reset changes nothing.
C10_ResetIsNew ==
    /\ [](op.name \in {"init", "reset"} =>
            self = [count |-> 0, target |-> 0, stage |-> "down",
                    active |-> FALSE, start_time |-> None,
                    paused_time |-> 0, rep_times |-> <<>>])
    /\ [][(op.name = "reset" /\ op'.name = "reset") => self' = self]_vars

C10_Witness ==
    /\ op.name = "reset"
    /\ op.pre[1].count = 1 /\ op.pre[1].active
    /\ op.pre[1].stage = "up" /\ op.pre[1].paused_time = 1
    /\ op.pre[1].rep_times = <<1>> /\ op.pre[1].target = 2

\* C11: every turn of the streaming loop on a delivered frame emits one
\* chunk and leaves the loop running; the turn that gets no frame emits
\* nothing, calls no update_state and stops the loop; nothing else stops a
\* running loop and a stopped loop takes no further turn.
C11_StopsOnMissingFrame ==
    [][/\ (op'.name = "generate_frames" /\ op'.arg # None)
            => (op'.ret = Some("chunk") /\ stream' = "running")
       /\ (op'.name = "generate_frames" /\ op'.arg = None)
            => /\ op'.ret = None
               /\ stream' = "stopped"
               /\ UNCHANGED tracker
               /\ sigs' = sigs
       /\ (stream = "running" /\ stream' # "running")
            => (op'.name = "generate_frames" /\ op'.arg = None)
       /\ op'.name = "generate_frames" => stream = "running"]_vars

C11_Witness ==
    /\ stream = "stopped"
    /\ op.name = "generate_frames" /\ op.arg = None /\ op.ret = None
    /\ active /\ count = 1 /\ sigs = <<TRUE, FALSE>>

\* C12: the stage goes from down to up exactly in an update_state call
\* with a visible signal on an active session whose stage is down; a
\* visible signal never changes the count.
C12_DownToUp ==
    [][/\ (stage = "down" /\ stage' = "up")
            <=> (active /\ stage = "down" /\ FrameStep(op', TRUE) /\ Visible(op'))
       /\ (FrameStep(op', TRUE) /\ Visible(op'))
            => (count' = count /\ rep_times' = rep_times)]_vars

C12_Witness ==
    /\ FrameStep(op, TRUE) /\ Visible(op)
    /\ active /\ stage = "up" /\ count = 1
    /\ sigs = <<TRUE, FALSE, TRUE>>

\* C13: the count changes only by +1, in a streaming-loop turn that moves
\* the stage of an active session from up to down, or to 0 in start and
\* reset; a not-visible signal in stage down changes neither stage nor
\* count; the stage is always up or down.
C13_CountSteps ==
    /\ [](stage \in {"up", "down"})
    /\ [][/\ count' # count
                => \/ /\ count' = count + 1
                      /\ FrameStep(op', TRUE) /\ ~Visible(op')
                      /\ active /\ stage = "up" /\ stage' = "down"
                   \/ (count' = 0 /\ op'.name \in {"start", "reset"})
          /\ (FrameStep(op', TRUE) /\ ~Visible(op') /\ stage = "down")
                => (stage' = "down" /\ count' = count)]_vars

C13_Witness ==
    /\ keptActive /\ sigs = <<TRUE, FALSE, FALSE, FALSE>>
    /\ count = 1 /\ stage = "down"

\* C14: a streaming-loop turn on a session that is not active changes no
\* tracker field, and from a pause to the resume that ends it the stage,
\* the count and rep_times stay as the pause found them.
C14_InactiveUpdateIsNoOp ==
    [][/\ (~active /\ op'.name = "generate_frames") => UNCHANGED tracker
       /\ (op'.name = "pause" \/ (~active /\ op'.name \notin {"start", "reset"}))
            => (stage' = stage /\ count' = count /\ rep_times' = rep_times)]_vars

C14_Witness ==
    /\ started /\ ~active /\ stage = "up" /\ count = 0
    /\ FrameStep(op, TRUE) /\ ~Visible(op)
    /\ sigs = <<TRUE, FALSE>>

\* C15: the session becomes active only in start or in a resume of a
\* started session; resume on a session never started, reset or active,
\* and pause on a session not active, change no tracker field; so a pause
\* after a pause and a resume after a resume change nothing.
C15_PauseResumeGuards ==
    [][/\ (~active /\ active')
            => (op'.name = "start" \/ (op'.name = "resume" /\ started))
       /\ (op'.name = "resume" /\ (~started \/ active)) => UNCHANGED tracker
       /\ (op'.name = "pause" /\ ~active) => UNCHANGED tracker
       /\ (op'.name = "pause" /\ op.name = "pause") => UNCHANGED tracker
       /\ (op'.name = "resume" /\ op.name = "resume") => UNCHANGED tracker]_vars

C15_Witness ==
    /\ op.name = "resume" /\ op.pre[1].start_time = None
    /\ ~active /\ ~started /\ now = Epoch + 2

\* C20: reaching the target stops nothing: a streaming-loop turn never
\* changes the active flag, the elapsed time of an active session follows
\* the clock, an up -> down change counts whatever the target, and a
\* complete flag that is true stays true until the next start or reset.
C20_CompleteIsStable ==
    [][/\ ((get_metrics.complete) /\ op'.name \notin {"start", "reset"})
            => (get_metrics.complete)'
       /\ op'.name = "generate_frames" => active' = active
       /\ (active /\ stage = "up" /\ FrameStep(op', TRUE) /\ ~Visible(op'))
            => count' = count + 1
       /\ (active /\ op'.name = "tick")
            => get_elapsed_time' = get_elapsed_time + 1]_vars

C20_Witness ==
    /\ active /\ target = 1 /\ count = 2
    /\ get_metrics.complete /\ get_elapsed_time = 2
    /\ FrameStep(op, TRUE) /\ ~Visible(op)

\* C16: is_visible is true exactly when nose, both shoulders and both hips
\* have visibility above 0.5; exactly 0.5 on one of them makes it false;
\* no other landmark changes it.
C16_BodyVisible ==
    op.name = "get_body_state" =>
        LET lm == op.arg[1]
            r == op.ret[1]
        IN  /\ r.is_visible <=> (\A l \in KeyLandmarks : lm[l].visibility >= 6)
            /\ (\E l \in KeyLandmarks : lm[l].visibility = 5) => ~r.is_visible
            /\ \A o \in PoseLandmark \ KeyLandmarks : \A v \in Visibilities :
                  get_body_state([lm EXCEPT ![o].visibility = v]).is_visible
                      = r.is_visible

C16_Witness ==
    /\ op.name = "get_body_state"
    /\ op.arg[1]["RIGHT_HIP"].visibility = 5
    /\ \A l \in KeyLandmarks \ {"RIGHT_HIP"} : op.arg[1][l].visibility = 6
    /\ op.arg[1]["LEFT_KNEE"].visibility = 4
    /\ ~op.ret[1].is_visible

\* C17: a /metrics response built while only the streaming loop writes the
\* tracker is consistent in itself: complete is (target > 0 and count >=
\* target) of the count and target it reports, and a reported count of 0
\* comes with speed 0.
C17_MetricsSnapshot ==
    (mreq.pc = "done" /\ mreq.clean) =>
        /\ mreq.complete <=> (mreq.target > 0 /\ mreq.count >= mreq.target)
        /\ mreq.count = 0 => mreq.speed.num = 0

\* C18: with update_state interleaved with reset and start, after a reset
\* and until the next start count is 0, stage is down and rep_times is
\* empty, and after a start and before update_state is called again count
\* is 0 and stage is down.
C18_ResetStartSerial ==
    /\ ~started => (count = 0 /\ stage = "down" /\ rep_times = <<>>)
    /\ (started /\ sigs = <<>>) => (count = 0 /\ stage = "down")

\* C19: with several streaming loops, in a session kept active whose start
\* met no update_state under way, whenever no loop is inside update_state
\* the count is the number of times the stage went from up to down.
C19_OneCountPerFall ==
    (keptActive /\ ~raced /\ \A i \in LoopIds : ~PastCheck(i)) => count = falls

\* C21: with operations taken one at a time, rep_times has exactly count
\* entries: a counted rep appends one entry and keeps the earlier ones,
\* start and reset empty rep_times and zero the count together, and no
\* other operation changes either.
C21_RepTimesMatchCount ==
    /\ [](Len(rep_times) = count)
    /\ [][/\ count' = count + 1
                => (Len(rep_times') = Len(rep_times) + 1
                    /\ SubSeq(rep_times', 1, Len(rep_times)) = rep_times)
          /\ op'.name \in {"start", "reset"}
                => (count' = 0 /\ rep_times' = <<>>)
          /\ rep_times' # rep_times
                => (count' = count + 1 \/ op'.name \in {"start", "reset"})]_vars

C21_Witness ==
    /\ count = 2 /\ Len(rep_times) = 2
    /\ stage = "down" /\ sigs = <<TRUE, FALSE, TRUE, FALSE>>

\* C22: with a non-decreasing clock every entry of rep_times is
\* non-negative, and right after a rep is counted the sum of rep_times is
\* the elapsed time of the session, which is the time it has spent active
\* since its start, pauses between the reps left out.
C22_RepTimesSumToElapsed ==
    /\ [](\A i \in DOMAIN rep_times : rep_times[i] >= 0)
    /\ [][count' = count + 1
            => /\ sum(rep_times') = get_elapsed_time'
               /\ sum(rep_times') = activeTime'
               /\ rep_times'[Len(rep_times')] = activeTime' - sum(rep_times)]_vars

C22_Witness ==
    /\ count = 2 /\ rep_times = <<1, 1>>
    /\ active /\ now = Epoch + 3 /\ activeTime = 2
    /\ FrameStep(op, TRUE) /\ ~Visible(op)

=============================================================================
